---- MODULE Spec2Model ----
(***************************************************************************)
(* The example regression runner of examples/tests/test_examples.py:       *)
(* discovery of the example scripts by marker, the subprocess run check,   *)
(* the force_offscreen fixture, and the in-process render-and-compare test *)
(* with its reference screenshots and diff artifacts on disk.              *)
(***************************************************************************)
EXTENDS Integers, Sequences, FiniteSets, TLC

VARIABLES
    scripts,                \* the examples directory: path -> text (set of lines)
    shell_environ,          \* environment of the shell that launches the harness
    environ,                \* os.environ of the harness process
    is_lavapipe,            \* testutils.is_lavapipe of this harness process
    regenerate_screenshots, \* pytestconfig.getoption("regenerate_screenshots")
    examples_to_run,        \* module-level list of line 25
    examples_to_test,       \* module-level list of line 28
    screenshots_dir,        \* stem -> file "<stem>.png" of the screenshots folder
    diffs_dir,              \* [exists, files]: the diffs folder, files by <<stem, kind>>
    item,                   \* the position of the harness: [phase, module]
    report,                 \* outcome of the test case in progress, once its body ended
    regenerated,            \* history: stem -> image last written by a regeneration run
    last_comparison         \* history: stem -> result of its most recent comparison

vars == <<scripts, shell_environ, environ, is_lavapipe, regenerate_screenshots,
          examples_to_run, examples_to_test, screenshots_dir, diffs_dir, item,
          report, regenerated, last_comparison>>

----------------------------------------------------------------------------
\* Bounds of the model.

\* pixels of a rendered image (the canvas size is fixed for all renders)
NPix == 1
\* the harness specification renders uniform images with channel value 0..MaxVal
MaxVal == 2
\* the comparison specification perturbs one channel by up to MaxDelta
MaxDelta == 2
\* child processes run for timeout - 1 .. timeout + MaxOver time units
MaxOver == 1
\* exit codes of a child process are -1 .. MaxCode
MaxCode == 1

----------------------------------------------------------------------------
\* Program constants.

\* subprocess.run(..., timeout=16)
timeout == 16
\* np.allclose(img, stored_img, atol=1)
atol == 1
\* np.allclose's default rtol is 1e-5 = 1 / rtol_inverse
rtol_inverse == 100000
\* 8-bit channels: (diffs_rgba / 255)
MaxChannel == 255
\* RGBA: diffs_rgba[..., :3] and diffs_rgba[..., 3]
NChannels == 4

WGPU_FORCE_OFFSCREEN == "WGPU_FORCE_OFFSCREEN"
\* the marker of find_examples(negative_query=...)
run_opt_out == "# run_example = false"
\* the marker of find_examples(query=...)
test_opt_in == "# test_example = true"

Abs(x) == IF x < 0 THEN -x ELSE x

----------------------------------------------------------------------------
\* Values: arrays, files, environments.

\* what renderer.target.draw() returns: None or an array of RGBA pixels
None == [is_none |-> TRUE, data |-> <<>>]
Array(d) == [is_none |-> FALSE, data |-> d]
NoFile == [exists |-> FALSE, data |-> <<>>]
File(d) == [exists |-> TRUE, data |-> d]

\* ndarray.size: the number of elements
size(img) == Len(img.data) * NChannels

\* ndarray.astype("u1") of a non-negative integral value
u1(v) == v % (MaxChannel + 1)

Pixels == 1..NPix
Uniform(v) == Array([p \in Pixels |-> [c \in 1..NChannels |-> v]])
Perturb(img, p, c, v) == Array([img.data EXCEPT ![p][c] = v])

\* os.environ[k] = v and del os.environ[k]
SetEnv(e, k, v) == [x \in DOMAIN e \cup {k} |-> IF x = k THEN v ELSE e[x]]
DelEnv(e, k) == [x \in DOMAIN e \ {k} |-> e[x]]
EmptyEnv == [x \in {} |-> ""]

----------------------------------------------------------------------------
\* Example discovery (examples/tests/testutils.find_examples and lines 24-28).

\* pathlib's stem of a path <<directory, stem>> (the extension is always .py)
Stem(path) == path[2]

\* `query in example_code`: the text holds the marker line
Contains(text, query) == query \in text

\* find_examples: the paths whose text holds query and not negative_query
find_examples_paths(dir, query, negative_query) ==
    {p \in DOMAIN dir :
        /\ (query = "" \/ Contains(dir[p], query))
        /\ (negative_query = "" \/ ~Contains(dir[p], negative_query))}

\* variant: the marker passed as query instead of negative_query
find_examples_swapped(dir) == find_examples_paths(dir, run_opt_out, "")
\* line 25: find_examples(negative_query="# run_example = false")
find_examples_to_run(dir) == find_examples_paths(dir, "", run_opt_out)

\* line 28: find_examples(query="# test_example = true", return_stems=True)
find_examples_to_test(dir) ==
    {Stem(p) : p \in find_examples_paths(dir, test_opt_in, "")}

----------------------------------------------------------------------------
\* Pixel comparison and diff artifacts.

\* variant: the difference taken in uint8, where it wraps around
isclose_wraparound(a, b, tol) ==
    rtol_inverse * ((a - b) % (MaxChannel + 1)) <= rtol_inverse * tol + Abs(b)
\* np.isclose on one element: |a - b| <= atol + rtol * |b|, computed in float64
isclose(a, b, tol) ==
    rtol_inverse * Abs(a - b) <= rtol_inverse * tol + Abs(b)

\* np.allclose(img, stored_img, atol=tol) on arrays of equal shape
allclose(img, stored_img, tol) ==
    \A p \in DOMAIN img.data : \A c \in 1..NChannels :
        isclose(img.data[p][c], stored_img.data[p][c], tol)

\* k^4 <= 255^3 * d, in 32-bit safe arithmetic (k^2 = 255 * a + r)
FourthPowerLeq(k, d) ==
    LET q == k * k
        a == q \div MaxChannel
        r == q % MaxChannel
        t == MaxChannel * a * a + 2 * a * r - MaxChannel * MaxChannel * d
        tc == IF t < 0 - MaxChannel THEN 0 - MaxChannel ELSE IF t > 1 THEN 1 ELSE t
    IN  MaxChannel * tc + r * r <= 0

\* (((d / 255) ** 0.25) * 255).astype("u1"): the fourth-root curve, truncated
FourthRootCurve ==
    [d \in 0..MaxChannel |->
        CHOOSE k \in 0..MaxChannel :
            /\ FourthPowerLeq(k, d)
            /\ (k = MaxChannel \/ ~FourthPowerLeq(k + 1, d))]
magnify(d) == u1(FourthRootCurve[d])

\* lines 123-127
diffs_rgba(img, stored_img) ==
    [p \in DOMAIN img.data |->
        [c \in 1..NChannels |-> magnify(Abs(stored_img.data[p][c] - img.data[p][c]))]]

\* variant: the PNG written without its alpha channel
imwrite_rgb_only(img) ==
    File([p \in DOMAIN img.data |->
        [c \in 1..NChannels |-> IF c = NChannels THEN MaxChannel ELSE u1(img.data[p][c])]])
\* imageio.imwrite of an 8-bit array (PNG is lossless), imageio.imread of it
imwrite(img) ==
    File([p \in DOMAIN img.data |-> [c \in DOMAIN img.data[p] |-> u1(img.data[p][c])]])
imread(file) == Array(file.data)

\* the two diff files of line 129-132, as contents
diff_rgb(d) == [data |-> [p \in DOMAIN d |-> SubSeq(d[p], 1, 3)]]
diff_alpha(d) == [data |-> [p \in DOMAIN d |-> <<d[p][NChannels]>>]]

DiffKinds == {"rgb", "alpha"}

\* variant: a passing comparison leaves earlier diff files in place
update_diffs_keep_stale(dd, module, is_similar, img, stored_img) ==
    LET d == diffs_rgba(img, stored_img)
        content(kind) == IF kind = "rgb" THEN diff_rgb(d) ELSE diff_alpha(d)
    IN  [exists |-> TRUE,
         files |-> [f \in DOMAIN dd.files |->
            IF f[1] = module /\ ~is_similar
            THEN imwrite(content(f[2]))
            ELSE dd.files[f]]]
\* lines 119-138
update_diffs(dd, module, is_similar, img, stored_img) ==
    LET d == diffs_rgba(img, stored_img)
        content(kind) == IF kind = "rgb" THEN diff_rgb(d) ELSE diff_alpha(d)
    IN  [exists |-> TRUE,
         files |-> [f \in DOMAIN dd.files |->
            IF f[1] # module THEN dd.files[f]
            ELSE IF ~is_similar THEN imwrite(content(f[2]))
            ELSE NoFile]]

----------------------------------------------------------------------------
\* The harness.

Idle == [phase |-> "idle", test |-> "", module |-> ""]
Importing == [phase |-> "import", test |-> "", module |-> ""]

NoReport ==
    [test |-> "none", module |-> "", outcome |-> "none", msg |-> <<>>,
     img |-> None, lavapipe |-> FALSE, regenerate |-> FALSE,
     had_reference |-> FALSE, had_diffs |-> FALSE,
     compared |-> FALSE, is_similar |-> FALSE,
     duration |-> 0, returncode |-> 0, stdout |-> "", env |-> EmptyEnv]

MsgTimeout ==
    <<"opt-out by adding # run_example = false to the module docstring,",
      "or use WgpuAutoGui to support WGPU_FORCE_OFFSCREEN">>
MsgExit(stdout) == <<"failed to run:", stdout>>
MsgSanity == <<"assert img is not None and img.size > 0">>
MsgSkip == <<"screenshot comparisons are only done when using lavapipe">>
MsgNoReference == <<"found # test_example = true but no reference screenshot available">>
MsgChanged(module) ==
    <<"rendered image for example", module, "changed, see the", "diffs", "folder">>

\* lines 34-35: the child's environment is a copy with the variable set
child_env(env) == SetEnv(env, WGPU_FORCE_OFFSCREEN, "true")

\* subprocess.run raises TimeoutExpired once the child ran longer than the timeout
timed_out(duration) == duration > timeout

\* variant: a timeout reported through the exit-code assertion
run_outcome_merged(duration, returncode, stdout) ==
    IF ~timed_out(duration) /\ returncode = 0
    THEN [outcome |-> "passed", msg |-> <<>>]
    ELSE [outcome |-> "failed", msg |-> MsgExit(stdout)]
\* lines 37-56: pytest.fail on timeout, else the assertion on the exit code
run_outcome(duration, returncode, stdout) ==
    IF timed_out(duration) THEN [outcome |-> "failed", msg |-> MsgTimeout]
    ELSE IF returncode = 0 THEN [outcome |-> "passed", msg |-> <<>>]
    ELSE [outcome |-> "failed", msg |-> MsgExit(stdout)]

\* line 62 and line 66 of the force_offscreen fixture
force_offscreen_enter(env) == SetEnv(env, WGPU_FORCE_OFFSCREEN, "true")
\* variant: the variable left set after the case
force_offscreen_leak(env) == env
force_offscreen_exit(env) == DelEnv(env, WGPU_FORCE_OFFSCREEN)

\* line 87
sanity(img) == ~img.is_none /\ size(img) > 0

\* variant: the comparison made on every backend
skip_never(lavapipe) == FALSE
\* lines 95-96
skip_comparison(lavapipe) == ~lavapipe

\* variants: the reference written whatever the option; whenever it is
\* missing; with the option only when it is missing; without alpha
regenerate_always(shots, module, img, option) ==
    [shots EXCEPT ![module] = imwrite(img)]
regenerate_if_missing(shots, module, img, option) ==
    IF ~shots[module].exists THEN [shots EXCEPT ![module] = imwrite(img)] ELSE shots
regenerate_only_missing(shots, module, img, option) ==
    IF option /\ ~shots[module].exists
    THEN [shots EXCEPT ![module] = imwrite(img)] ELSE shots
regenerate_rgb_only(shots, module, img, option) ==
    IF option THEN [shots EXCEPT ![module] = imwrite_rgb_only(img)] ELSE shots
\* lines 98-101
regenerate(shots, module, img, option) ==
    IF option THEN [shots EXCEPT ![module] = imwrite(img)] ELSE shots

\* lines 82-116 after the render: what the test case does to the disk and how it ends
screenshots_body(module, img, lavapipe, option, shots, dd) ==
    LET unchanged == [screenshots |-> shots, diffs |-> dd, regenerated |-> FALSE,
                      compared |-> FALSE, is_similar |-> FALSE]
    IN  IF ~sanity(img)
        THEN unchanged @@ [outcome |-> "failed", msg |-> MsgSanity]
        ELSE IF skip_comparison(lavapipe)
        THEN unchanged @@ [outcome |-> "skipped", msg |-> MsgSkip]
        ELSE LET shots1 == regenerate(shots, module, img, option)
             IN  IF ~shots1[module].exists
                 THEN [unchanged EXCEPT !.screenshots = shots1, !.regenerated = option]
                        @@ [outcome |-> "failed", msg |-> MsgNoReference]
                 ELSE LET stored_img == imread(shots1[module])
                          is_similar == allclose(img, stored_img, atol)
                      IN  [screenshots |-> shots1,
                           regenerated |-> option,
                           diffs |-> update_diffs(dd, module, is_similar, img, stored_img),
                           compared |-> TRUE,
                           is_similar |-> is_similar,
                           outcome |-> IF is_similar THEN "passed" ELSE "failed",
                           msg |-> IF is_similar THEN <<>> ELSE MsgChanged(module)]

\* the harness process starts: imports of lines 5-21, the command-line option
pytest_session(lavapipe, option) ==
    /\ item.phase = "idle"
    /\ environ' = shell_environ
    /\ is_lavapipe' = lavapipe
    /\ regenerate_screenshots' = option
    /\ examples_to_run' = {}
    /\ examples_to_test' = {}
    /\ item' = Importing
    /\ UNCHANGED <<scripts, shell_environ, screenshots_dir, diffs_dir, report,
                   regenerated, last_comparison>>

\* lines 24-28, executed when the test module is imported
import_module ==
    /\ item.phase = "import"
    /\ examples_to_run' = find_examples_to_run(scripts)
    /\ examples_to_test' = find_examples_to_test(scripts)
    /\ item' = Idle
    /\ UNCHANGED <<scripts, shell_environ, environ, is_lavapipe, regenerate_screenshots,
                   screenshots_dir, diffs_dir, report, regenerated, last_comparison>>

\* lines 31-56
test_examples_run(module, duration, returncode, stdout) ==
    /\ item.phase = "idle"
    /\ module \in examples_to_run
    /\ LET env == child_env(environ)
           res == run_outcome(duration, returncode, stdout)
       IN  report' = [NoReport EXCEPT
                !.test = "run", !.module = module,
                !.outcome = res.outcome, !.msg = res.msg,
                !.duration = duration, !.returncode = returncode,
                !.stdout = stdout, !.env = env]
    /\ item' = [phase |-> "teardown", test |-> "run", module |-> module]
    /\ UNCHANGED <<scripts, shell_environ, environ, is_lavapipe, regenerate_screenshots,
                   examples_to_run, examples_to_test, screenshots_dir, diffs_dir,
                   regenerated, last_comparison>>

\* lines 59-64: the fixture up to its yield, for one parametrized case of line 78
force_offscreen_setup(module) ==
    /\ item.phase = "idle"
    /\ module \in examples_to_test
    /\ environ' = force_offscreen_enter(environ)
    /\ item' = [phase |-> "call", test |-> "screenshots", module |-> module]
    /\ UNCHANGED <<scripts, shell_environ, is_lavapipe, regenerate_screenshots,
                   examples_to_run, examples_to_test, screenshots_dir, diffs_dir,
                   report, regenerated, last_comparison>>

\* lines 78-116; img is what example.renderer.target.draw() returned
test_examples_screenshots(img) ==
    /\ item.phase = "call"
    /\ LET module == item.module
           res == screenshots_body(module, img, is_lavapipe, regenerate_screenshots,
                                   screenshots_dir, diffs_dir)
       IN  /\ screenshots_dir' = res.screenshots
           /\ diffs_dir' = res.diffs
           /\ report' = [NoReport EXCEPT
                !.test = "screenshots", !.module = module,
                !.outcome = res.outcome, !.msg = res.msg, !.img = img,
                !.lavapipe = is_lavapipe, !.regenerate = regenerate_screenshots,
                !.had_reference = screenshots_dir[module].exists,
                !.had_diffs = \E kind \in DiffKinds :
                                diffs_dir.files[<<module, kind>>].exists,
                !.compared = res.compared, !.is_similar = res.is_similar]
           /\ regenerated' =
                IF res.regenerated
                THEN [regenerated EXCEPT ![module] = img] ELSE regenerated
           /\ last_comparison' =
                IF res.compared
                THEN [last_comparison EXCEPT
                        ![module] = IF res.is_similar THEN "similar" ELSE "dissimilar"]
                ELSE last_comparison
           /\ item' = [phase |-> "teardown", test |-> "screenshots", module |-> module]
    /\ UNCHANGED <<scripts, shell_environ, environ, is_lavapipe, regenerate_screenshots,
                   examples_to_run, examples_to_test>>

\* lines 65-66: the fixture's finally clause, run however the body ended
force_offscreen_teardown ==
    /\ item.phase = "teardown"
    /\ item.test = "screenshots"
    /\ environ' = force_offscreen_exit(environ)
    /\ item' = Idle
    /\ report' = NoReport
    /\ UNCHANGED <<scripts, shell_environ, is_lavapipe, regenerate_screenshots,
                   examples_to_run, examples_to_test, screenshots_dir, diffs_dir,
                   regenerated, last_comparison>>

\* line 31: a case of test_examples_run uses no fixture, the next case follows
test_examples_run_done ==
    /\ item.phase = "teardown"
    /\ item.test = "run"
    /\ item' = Idle
    /\ report' = NoReport
    /\ UNCHANGED <<scripts, shell_environ, environ, is_lavapipe, regenerate_screenshots,
                   examples_to_run, examples_to_test, screenshots_dir, diffs_dir,
                   regenerated, last_comparison>>

----------------------------------------------------------------------------
\* Inputs of the model.

ScriptPaths == {<<"feature_demo", "transparency1">>, <<"introductory", "demo">>}
DiscoveryPaths == ScriptPaths \cup {<<"validation", "validate_volume">>}
Stems == {Stem(p) : p \in ScriptPaths}

\* lines a script may hold: the two markers, a near miss, ordinary code
Code == "import pygfx as gfx"
ScriptLines == {run_opt_out, test_opt_in, "# run_example = true", Code}
HarnessDirs ==
    {[p \in ScriptPaths |-> IF Stem(p) = "demo" THEN {Code} ELSE {Code, test_opt_in}],
     [p \in ScriptPaths |->
        IF Stem(p) = "demo" THEN {Code, test_opt_in} ELSE {run_opt_out, test_opt_in}]}

HarnessImages == {Uniform(v) : v \in 0..MaxVal}
RenderSet == {None, Array(<<>>)} \cup HarnessImages

Bases == {0, 128, MaxChannel}
Near(b) == {v \in (b - MaxDelta)..(b + MaxDelta) : 0 <= v /\ v <= MaxChannel}
CompareImages ==
    UNION {{Perturb(Uniform(b), p, c, v) :
                p \in Pixels, c \in 1..NChannels, v \in Near(b)} : b \in Bases}

PlainEnv == [x \in {"PATH"} |-> "/usr/bin"]
ShellEnvs == {PlainEnv, SetEnv(PlainEnv, WGPU_FORCE_OFFSCREEN, "1")}

Durations == (timeout - 1)..(timeout + MaxOver)
ExitCodes == (0 - 1)..MaxCode
Outputs == {"", "Traceback (most recent call last)"}

EmptyDiffs == [exists |-> FALSE, files |-> [f \in Stems \X DiffKinds |-> NoFile]]
\* diff files a failed comparison of an earlier harness process left behind
StaleDiffs(stale) ==
    [exists |-> stale # {},
     files |-> [f \in Stems \X DiffKinds |->
        IF f[1] \in stale
        THEN update_diffs(EmptyDiffs, f[1], FALSE, Uniform(0), Uniform(atol + 1)).files[f]
        ELSE NoFile]]

----------------------------------------------------------------------------
\* The harness specification.

Init ==
    /\ scripts \in HarnessDirs
    /\ shell_environ \in ShellEnvs
    /\ environ = shell_environ
    /\ is_lavapipe \in BOOLEAN
    /\ regenerate_screenshots \in BOOLEAN
    /\ examples_to_run = {}
    /\ examples_to_test = {}
    /\ screenshots_dir \in [Stems -> {NoFile} \cup {imwrite(i) : i \in HarnessImages}]
    /\ diffs_dir \in {StaleDiffs(stale) : stale \in SUBSET Stems}
    /\ item = Importing
    /\ report = NoReport
    /\ regenerated = [m \in Stems |-> None]
    /\ last_comparison = [m \in Stems |-> "none"]

Next ==
    \/ \E lavapipe \in BOOLEAN, option \in BOOLEAN : pytest_session(lavapipe, option)
    \/ import_module
    \/ \E module \in ScriptPaths, duration \in Durations,
          returncode \in ExitCodes, stdout \in Outputs :
            test_examples_run(module, duration, returncode, stdout)
    \/ \E module \in Stems : force_offscreen_setup(module)
    \/ \E img \in RenderSet : test_examples_screenshots(img)
    \/ force_offscreen_teardown
    \/ test_examples_run_done

Spec == Init /\ [][Next]_vars

----------------------------------------------------------------------------
\* The comparison specification: one screenshot case of transparency1 on the
\* reference backend, with reference and render drawn from CompareImages.

InitCompare ==
    /\ scripts = [p \in ScriptPaths |-> {Code, test_opt_in}]
    /\ shell_environ = PlainEnv
    /\ environ = force_offscreen_enter(PlainEnv)
    /\ is_lavapipe = TRUE
    /\ regenerate_screenshots = FALSE
    /\ examples_to_run = find_examples_to_run(scripts)
    /\ examples_to_test = find_examples_to_test(scripts)
    /\ \E stored \in CompareImages :
         screenshots_dir = [m \in Stems |->
            IF m = "transparency1" THEN imwrite(stored) ELSE NoFile]
    /\ diffs_dir = EmptyDiffs
    /\ item = [phase |-> "call", test |-> "screenshots", module |-> "transparency1"]
    /\ report = NoReport
    /\ regenerated = [m \in Stems |-> None]
    /\ last_comparison = [m \in Stems |-> "none"]

NextCompare ==
    \/ \E img \in CompareImages : test_examples_screenshots(img)
    \/ force_offscreen_teardown

SpecCompare == InitCompare /\ [][NextCompare]_vars

----------------------------------------------------------------------------
\* The discovery specification: any examples directory, then the import.

InitDiscovery ==
    /\ scripts \in [DiscoveryPaths -> SUBSET ScriptLines]
    /\ shell_environ = PlainEnv
    /\ environ = shell_environ
    /\ is_lavapipe = TRUE
    /\ regenerate_screenshots = FALSE
    /\ examples_to_run = {}
    /\ examples_to_test = {}
    /\ screenshots_dir = [m \in Stems |-> NoFile]
    /\ diffs_dir = EmptyDiffs
    /\ item = Importing
    /\ report = NoReport
    /\ regenerated = [m \in Stems |-> None]
    /\ last_comparison = [m \in Stems |-> "none"]

NextDiscovery == import_module

SpecDiscovery == InitDiscovery /\ [][NextDiscovery]_vars

----------------------------------------------------------------------------
\* Properties.

ScreenshotsEnded == item.phase = "teardown" /\ report.test = "screenshots"
RunEnded == item.phase = "teardown" /\ report.test = "run"
\* a step in which the body of a screenshot case runs
ScreenshotsStep == item.phase = "call" /\ item'.phase = "teardown"
InBody == item.test = "screenshots" /\ item.phase \in {"call", "teardown"}
DiffFile(m, kind) == diffs_dir.files[<<m, kind>>]
NoDiffs(m) == \A kind \in DiffKinds : ~DiffFile(m, kind).exists
HasVariable(env) == WGPU_FORCE_OFFSCREEN \in DOMAIN env
MaxDifference(a, b) ==
    CHOOSE d \in 0..MaxChannel :
        /\ \A p \in DOMAIN a.data : \A c \in 1..NChannels :
                Abs(a.data[p][c] - b.data[p][c]) <= d
        /\ (d = 0 \/ \E p \in DOMAIN a.data : \E c \in 1..NChannels :
                Abs(a.data[p][c] - b.data[p][c]) = d)

\* C1: a comparison that reaches update_diffs writes both diff files of its
\* identifier when it is dissimilar and leaves neither on disk when it is
\* similar; whenever the most recent comparison of an identifier passed, no
\* diff file of it is on disk.
C1_DiffLifecycle ==
    /\ ScreenshotsEnded /\ report.compared =>
        LET m == report.module
            d == diffs_rgba(report.img, imread(screenshots_dir[m]))
        IN  IF report.is_similar
            THEN NoDiffs(m)
            ELSE /\ DiffFile(m, "rgb") = imwrite(diff_rgb(d))
                 /\ DiffFile(m, "alpha") = imwrite(diff_alpha(d))
    /\ \A m \in Stems : last_comparison[m] = "similar" => NoDiffs(m)

\* a passing comparison has just deleted the diff files an earlier one left
C1_Witness ==
    /\ ScreenshotsEnded /\ report.compared /\ report.is_similar
    /\ report.had_diffs /\ NoDiffs(report.module)
    /\ \E m \in Stems : last_comparison[m] = "dissimilar" /\ ~NoDiffs(m)

\* C2: the comparison yields similar exactly when every channel of every
\* pixel differs by at most 1, whatever the magnitude of the values and
\* whichever image is the larger.
C2_ToleranceBoundary ==
    ScreenshotsEnded /\ report.compared =>
        LET stored_img == imread(screenshots_dir[report.module])
        IN  report.is_similar <=>
                \A p \in DOMAIN report.img.data : \A c \in 1..NChannels :
                    Abs(report.img.data[p][c] - stored_img.data[p][c]) <= 1

\* a single channel two below a reference channel of 255: dissimilar
C2_Witness ==
    /\ ScreenshotsEnded /\ report.compared /\ ~report.is_similar
    /\ LET stored_img == imread(screenshots_dir[report.module])
       IN  /\ MaxDifference(report.img, stored_img) = 2
           /\ \E p \in Pixels : \E c \in 1..NChannels :
                /\ stored_img.data[p][c] = MaxChannel
                /\ report.img.data[p][c] = MaxChannel - 2
                /\ \A q \in Pixels : \A e \in 1..NChannels :
                    <<q, e>> # <<p, c>> => report.img.data[q][e] = stored_img.data[q][e]

\* C3: on the reference backend without the regenerate option, a sane render
\* of an example that has no reference screenshot ends the case as failed
\* before any comparison: no reference is created, no diff file is touched.
C3_MissingReferenceFails ==
    [][(/\ ScreenshotsStep
        /\ is_lavapipe /\ ~regenerate_screenshots
        /\ sanity(report'.img)
        /\ ~screenshots_dir[item.module].exists)
       => /\ report'.outcome = "failed"
          /\ report'.msg = MsgNoReference
          /\ ~report'.compared
          /\ screenshots_dir' = screenshots_dir
          /\ diffs_dir' = diffs_dir
          /\ last_comparison' = last_comparison]_vars

\* the case failed on the missing reference while stale diff files lie on disk
C3_Witness ==
    /\ ScreenshotsEnded /\ report.lavapipe /\ ~report.regenerate
    /\ sanity(report.img) /\ ~report.had_reference
    /\ report.outcome = "failed" /\ report.had_diffs

\* C4 as stated: every run with the regenerate option leaves the reference
\* equal to the fresh render and does not fail on a pixel mismatch.
C4_RegenerateEveryRun ==
    ScreenshotsEnded /\ report.regenerate =>
        /\ screenshots_dir[report.module] = imwrite(report.img)
        /\ ~(report.outcome = "failed" /\ report.msg = MsgChanged(report.module))

\* C4 amended: a run with the regenerate option on the reference backend
\* whose render passes the sanity check leaves the reference equal to the
\* fresh render, whatever it was before, and does not fail on a pixel mismatch.
C4_RegenerateOnReferenceBackend ==
    ScreenshotsEnded /\ report.regenerate /\ report.lavapipe /\ sanity(report.img) =>
        /\ screenshots_dir[report.module] = imwrite(report.img)
        /\ ~(report.outcome = "failed" /\ report.msg = MsgChanged(report.module))

\* a regeneration run replaced a reference that had failed a comparison
C4_Witness ==
    /\ ScreenshotsEnded /\ report.regenerate /\ report.lavapipe /\ sanity(report.img)
    /\ report.had_reference /\ report.had_diffs
    /\ screenshots_dir[report.module] = imwrite(report.img)

\* C5: on the reference backend the comparison a regeneration run makes of
\* its render against the reference it just wrote is similar, and a later
\* normal run that renders the regenerated image passes and leaves no diff
\* file of the identifier.
C5_RegenerateRoundTrip ==
    ScreenshotsEnded /\ report.lavapipe /\ sanity(report.img) =>
        /\ report.regenerate =>
            /\ report.compared /\ report.is_similar
            /\ allclose(report.img, imread(screenshots_dir[report.module]), atol)
        /\ ~report.regenerate /\ regenerated[report.module] = report.img =>
            /\ report.outcome = "passed"
            /\ NoDiffs(report.module)

\* a normal run of the regenerated image passed and removed earlier diff files
C5_Witness ==
    /\ ScreenshotsEnded /\ report.lavapipe /\ ~report.regenerate
    /\ regenerated[report.module] = report.img
    /\ report.had_diffs /\ report.outcome = "passed"

\* C6: a step taken without the regenerate option leaves every reference
\* screenshot as it was, and a diff file changes only in the comparison of
\* its own identifier.
C6_ReferencesOnlyRegenerated ==
    [][/\ ~regenerate_screenshots => screenshots_dir' = screenshots_dir
       /\ \A f \in DOMAIN diffs_dir.files :
            diffs_dir'.files[f] # diffs_dir.files[f] =>
                ScreenshotsStep /\ f[1] = item.module /\ report'.compared]_vars

\* a mismatch without the option: the case failed, the other identifier's
\* diff files are still there
C6_Witness ==
    /\ ScreenshotsEnded /\ ~report.regenerate /\ report.compared
    /\ report.outcome = "failed"
    /\ \E m \in Stems : m # report.module /\ ~NoDiffs(m)

\* C7: off the reference backend a null or empty render fails the case, any
\* other render ends it as skipped, whatever the reference; no comparison is
\* made and no diff file is written or deleted.
C7_AdapterGating ==
    [][ScreenshotsStep /\ ~is_lavapipe =>
        /\ IF sanity(report'.img)
           THEN report'.outcome = "skipped"
           ELSE report'.outcome = "failed" /\ report'.msg = MsgSanity
        /\ ~report'.compared
        /\ diffs_dir' = diffs_dir
        /\ last_comparison' = last_comparison]_vars

\* a skipped case with the regenerate option, no reference and stale diffs
C7_Witness ==
    /\ ScreenshotsEnded /\ ~report.lavapipe /\ report.outcome = "skipped"
    /\ report.regenerate /\ ~report.had_reference /\ report.had_diffs
    /\ ~NoDiffs(report.module)

C9_RunOutcome ==
    RunEnded =>
        /\ report.outcome = "passed" <=>
            (report.duration <= timeout /\ report.returncode = 0)
        /\ report.outcome \in {"passed", "failed"}
        /\ report.duration > timeout =>
            report.outcome = "failed" /\ report.msg = MsgTimeout
        /\ report.duration <= timeout /\ report.returncode # 0 =>
            /\ report.outcome = "failed"
            /\ report.msg # MsgTimeout
            /\ \E i \in DOMAIN report.msg : report.msg[i] = report.stdout

\* a child that ran too long and would have exited non-zero: the timeout failure
C9_Witness ==
    /\ RunEnded /\ report.duration > timeout /\ report.returncode # 0
    /\ report.stdout # "" /\ report.msg = MsgTimeout

\* C10: when the harness starts without the variable, it is "true" in the
\* harness environment throughout a screenshot case and absent otherwise; the
\* run check sets it in the child's copy only.
C10_HeadlessVariableScoped ==
    ~HasVariable(shell_environ) =>
        /\ InBody =>
            HasVariable(environ) /\ environ[WGPU_FORCE_OFFSCREEN] = "true"
        /\ ~InBody => environ = shell_environ
        /\ RunEnded =>
            /\ HasVariable(report.env) /\ report.env[WGPU_FORCE_OFFSCREEN] = "true"
            /\ DelEnv(report.env, WGPU_FORCE_OFFSCREEN) = environ

\* a run check ended: the child had the variable, the harness does not
C10_Witness ==
    /\ ~HasVariable(shell_environ)
    /\ RunEnded /\ report.outcome = "failed"
    /\ HasVariable(report.env) /\ ~HasVariable(environ)
    /\ \E m \in Stems : last_comparison[m] = "dissimilar"

====
